---- MODULE Spec2Model ----
(***************************************************************************)
(* pypgen: a parser-combinator library (src/pypgen.py).                    *)
(*                                                                         *)
(* Parser objects live in a heap (object identity = heap index); the       *)
(* builder methods allocate new objects, and parse is the pure recursive   *)
(* function the code defines, evaluated on the heap as it then is.         *)
(* Python strings are sequences of one-character strings; Python values    *)
(* carry their type ("str", "int", "tuple", "list").  The model follows    *)
(* Python 3 (str(int) is "<class 'int'>", the default str of an object     *)
(* without __str__ is "<module.Class object at 0x...>").                   *)
(***************************************************************************)
EXTENDS Integers, Sequences, FiniteSets, TLC

VARIABLES heap, made, out

vars == <<heap, made, out>>

(***************************************************************************)
(* Bounds of the model.                                                    *)
(***************************************************************************)
\* most parser objects constructed in one behaviour
MaxObjs == 3
\* longest input string passed to parse
MaxInLen == 2
\* most values a KleeneParser loop collects before the model gives up on it
MaxIter == 3

\* the characters inputs are made of
Chars == {"a", "1"}
\* the strings given to l(...)
Literals == {<<>>, <<"a">>, <<"1">>}
\* the pattern texts given to r(...)
Patterns == {<<"[", "0", "-", "9", "]", "+">>, <<"[", "0", "-", "9", "]", "*">>}
\* the functions given to w(...)
Transforms == {"int"}

RECURSIVE StringsUpTo(_)
StringsUpTo(n) ==
    IF n = 0 THEN {<<>>}
    ELSE LET shorter == StringsUpTo(n - 1)
         IN  shorter \cup {Append(x, c) : x \in shorter, c \in Chars}

Inputs == StringsUpTo(MaxInLen)

(***************************************************************************)
(* Python values and strings.                                              *)
(***************************************************************************)
PyStr(chars) == [t |-> "str", v |-> chars]
PyInt(n) == [t |-> "int", v |-> n]
PyTuple(items) == [t |-> "tuple", v |-> items]
PyList(items) == [t |-> "list", v |-> items]

\* a Python list of str, from the strings
PyStrs(strs) == [i \in DOMAIN strs |-> PyStr(strs[i])]

Range(f) == {f[x] : x \in DOMAIN f}

\* in_str[n:]
SliceFrom(in_str, n) == SubSeq(in_str, n + 1, Len(in_str))
\* in_str[:n]
SliceTo(in_str, n) == SubSeq(in_str, 1, IF n < Len(in_str) THEN n ELSE Len(in_str))
\* in_str.startswith(s)
StartsWith(in_str, s) == Len(s) <= Len(in_str) /\ SubSeq(in_str, 1, Len(s)) = s

Digits == {"0", "1", "2", "3", "4", "5", "6", "7", "8", "9"}
DigitVal == [c \in Digits |->
    CASE c = "0" -> 0 [] c = "1" -> 1 [] c = "2" -> 2 [] c = "3" -> 3 [] c = "4" -> 4
      [] c = "5" -> 5 [] c = "6" -> 6 [] c = "7" -> 7 [] c = "8" -> 8 [] c = "9" -> 9]
DigitChar == [n \in 0..9 |-> CHOOSE c \in Digits : DigitVal[c] = n]

RECURSIVE DecimalValue(_)
DecimalValue(chars) ==
    IF chars = <<>> THEN 0
    ELSE 10 * DecimalValue(SubSeq(chars, 1, Len(chars) - 1)) + DigitVal[chars[Len(chars)]]

RECURSIVE DecimalChars(_)
DecimalChars(n) ==
    IF n < 10 THEN <<DigitChar[n]>> ELSE Append(DecimalChars(n \div 10), DigitChar[n % 10])

\* repr(s) of a str: double quotes when s holds ' and no ", else single quotes;
\* backslashes and the chosen quote are escaped
RECURSIVE PyEscape(_, _)
PyEscape(chars, quote) ==
    IF \A i \in DOMAIN chars : chars[i] # "\\" /\ chars[i] # quote THEN chars
    ELSE IF Len(chars) = 1 THEN <<"\\", chars[1]>>
    ELSE LET half == Len(chars) \div 2
         IN  PyEscape(SubSeq(chars, 1, half), quote)
             \o PyEscape(SubSeq(chars, half + 1, Len(chars)), quote)

PyReprStr(chars) ==
    LET quote == IF "'" \in Range(chars) /\ ~("\"" \in Range(chars)) THEN "\"" ELSE "'"
    IN  <<quote>> \o PyEscape(chars, quote) \o <<quote>>

\* str(list of str): "[" + ", ".join(repr(x)) + "]"
RECURSIVE PyJoinRepr(_)
PyJoinRepr(strs) ==
    IF strs = <<>> THEN <<>>
    ELSE IF Len(strs) = 1 THEN PyReprStr(strs[1])
    ELSE PyReprStr(strs[1]) \o <<",", " ">> \o PyJoinRepr(Tail(strs))

PyStrOfList(strs) == <<"[">> \o PyJoinRepr(strs) \o <<"]">>

(***************************************************************************)
(* Success and Failure (src/pypgen.py 3-22), and the two ways a call ends  *)
(* without a result: an exception raised by a transform, and a loop that   *)
(* is still running when the model's bound on it is reached.               *)
(***************************************************************************)
Success(value, rest) == [kind |-> "Success", value |-> value, rest |-> rest]
Failure(expected, rest) == [kind |-> "Failure", expected |-> expected, rest |-> rest]
Raise(exc) == [kind |-> "Raise", exc |-> exc]
NoReturn == [kind |-> "NoReturn"]

\* the evaluation of one call parser.parse(in_str): how it ended and the calls
\* it made, in order, each an evaluation itself
Call(p, in_str, result, sub) == [p |-> p, in_str |-> in_str, result |-> result, sub |-> sub]
NoCall == [p |-> 0]

(***************************************************************************)
(* The library module re, for the patterns used here: a character class    *)
(* [0-9] followed by + or *.  match is anchored at position 0 and greedy.  *)
(***************************************************************************)
ReCompile(regex_str) ==
    [pattern |-> regex_str,
     cls |-> Digits,
     min |-> IF regex_str[Len(regex_str)] = "+" THEN 1 ELSE 0]

RECURSIVE RunLength(_, _)
RunLength(cls, in_str) ==
    IF in_str = <<>> \/ ~(Head(in_str) \in cls) THEN 0
    ELSE 1 + RunLength(cls, Tail(in_str))

\* regex.match(in_str): the end of the match, or -1 for None
ReMatchEnd(regex, in_str) ==
    LET n == RunLength(regex.cls, in_str)
    IN  IF n >= regex.min THEN n ELSE -1

(***************************************************************************)
(* The functions passed to w(...).  int(v) raises ValueError on a str that *)
(* is not a decimal numeral and TypeError on a tuple or a list.            *)
(***************************************************************************)
TransStr(trans) ==
    CASE trans = "int" -> <<"<", "c", "l", "a", "s", "s", " ", "'", "i", "n", "t", "'", ">">>

TransRaises(trans, value) ==
    CASE trans = "int" ->
        CASE value.t = "int" -> "None"
          [] value.t = "str" ->
               IF value.v # <<>> /\ Range(value.v) \subseteq Digits THEN "None" ELSE "ValueError"
          [] OTHER -> "TypeError"

TransApply(trans, value) ==
    CASE trans = "int" ->
        IF value.t = "int" THEN value ELSE PyInt(DecimalValue(value.v))

(***************************************************************************)
(* __str__ of the parser classes.  OrParser defines none: its str is the   *)
(* default one, which names the class and the object's address (here the   *)
(* heap index).                                                            *)
(***************************************************************************)
RECURSIVE Str(_, _)
RECURSIVE StrAll(_, _)
\* [str(p) for p in parsers]
StrAll(h, parsers) ==
    IF parsers = <<>> THEN <<>>
    ELSE <<Str(h, Head(parsers))>> \o StrAll(h, Tail(parsers))

Str(h, p) ==
    LET self == h[p] IN
    CASE self.kind = "LiteralParser" ->
            <<"L", "i", "t", "e", "r", "a", "l", "P", "a", "r", "s", "e", "r", "(">>
            \o self.s \o <<")">>
      [] self.kind = "RegexParser" ->
            <<"R", "e", "g", "e", "x", "P", "a", "r", "s", "e", "r", "(">>
            \o self.regex.pattern \o <<")">>
      [] self.kind = "KleeneParser" ->
            <<"K", "l", "e", "e", "n", "e", "P", "a", "r", "s", "e", "r", "(">>
            \o Str(h, self.parser) \o <<")">>
      [] self.kind = "SeqParser" ->
            <<"S", "e", "q", "P", "a", "r", "s", "e", "r", "(">>
            \o PyStrOfList(StrAll(h, self.parsers)) \o <<")">>
      [] self.kind = "ResultTransformingParser" ->
            <<"R", "e", "s", "u", "l", "t", "T", "r", "a", "n", "s", "f", "o", "r", "m",
              "i", "n", "g", "P", "a", "r", "s", "e", "r", "(">>
            \o Str(h, self.parser) \o <<",", " ">> \o TransStr(self.trans) \o <<")">>
      [] self.kind = "OrParser" ->
            <<"<", "p", "y", "p", "g", "e", "n", ".", "O", "r", "P", "a", "r", "s", "e", "r",
              " ", "o", "b", "j", "e", "c", "t", " ", "a", "t", " ", "0", "x">>
            \o DecimalChars(p) \o <<">">>

(***************************************************************************)
(* parse.  ParserParse(h, p, in_str) is the call h[p].parse(in_str),       *)
(* dispatched on the class of h[p]; it yields the Call that records the    *)
(* result and the calls made on the way.                                   *)
(***************************************************************************)
RECURSIVE ParserParse(_, _, _)

\* LiteralParser.parse with the two slices of in_str exchanged
LiteralParse_SlicesSwapped(self, in_str) ==
    IF StartsWith(in_str, self.s)
    THEN Success(PyStr(SliceFrom(in_str, Len(self.s))), SliceTo(in_str, Len(self.s)))
    ELSE Failure(PyStr(self.s), in_str)

\* LiteralParser.parse
LiteralParse(self, in_str) ==
    IF StartsWith(in_str, self.s)
    THEN Success(PyStr(SliceTo(in_str, Len(self.s))), SliceFrom(in_str, Len(self.s)))
    ELSE Failure(PyStr(self.s), in_str)

\* RegexParser.parse
RegexParse(self, in_str) ==
    LET end == ReMatchEnd(self.regex, in_str) IN
    IF end # -1
    THEN Success(PyStr(SliceTo(in_str, end)), SliceFrom(in_str, end))
    ELSE Failure(PyStr(self.regex.pattern), in_str)

\* ResultTransformingParser.parse reporting the child's Failure at its own input
TransResult_FailureRewound(self, in_str, result) ==
    IF result.kind = "Failure" THEN Failure(result.expected, in_str)
    ELSE IF TransRaises(self.trans, result.value) # "None"
         THEN Raise(TransRaises(self.trans, result.value))
         ELSE Success(TransApply(self.trans, result.value), result.rest)

\* ResultTransformingParser.parse, after the child's call returned result
TransResult(self, in_str, result) ==
    IF result.kind = "Failure" THEN result
    ELSE IF TransRaises(self.trans, result.value) # "None"
         THEN Raise(TransRaises(self.trans, result.value))
         ELSE Success(TransApply(self.trans, result.value), result.rest)

TransParse(h, p, in_str) ==
    LET self == h[p]
        c == ParserParse(h, self.parser, in_str)
    IN  IF c.result.kind \in {"Raise", "NoReturn"}
        THEN Call(p, in_str, c.result, <<c>>)
        ELSE Call(p, in_str, TransResult(self, in_str, c.result), <<c>>)

\* SeqParser.parse reporting a child's Failure at the sequence's own input
SeqFailure_Rewound(result, in_str, result_values) == Failure(result.expected, in_str)

\* SeqParser.parse: what the loop returns on a failing child
SeqFailure(result, in_str, result_values) == result

\* SeqParser.parse: what is returned after the loop
SeqSuccess(result_values, in_str_rest) == Success(PyTuple(result_values), in_str_rest)

\* SeqParser.parse: the loop from the i-th parser on
RECURSIVE SeqFor(_, _, _, _, _, _)
SeqFor(h, p, in_str, result_values, in_str_rest, sub) ==
    LET self == h[p]
        i == Len(sub) + 1
    IN  IF i > Len(self.parsers)
        THEN Call(p, in_str, SeqSuccess(result_values, in_str_rest), sub)
        ELSE LET c == ParserParse(h, self.parsers[i], in_str_rest)
                 result == c.result
             IN  IF result.kind \in {"Raise", "NoReturn"}
                 THEN Call(p, in_str, result, Append(sub, c))
                 ELSE IF result.kind = "Failure"
                 THEN Call(p, in_str, SeqFailure(result, in_str, result_values), Append(sub, c))
                 ELSE SeqFor(h, p, in_str, Append(result_values, result.value),
                             result.rest, Append(sub, c))

SeqParse(h, p, in_str) == SeqFor(h, p, in_str, <<>>, in_str, <<>>)

\* OrParser.parse failing where its last child failed
OrFailure_AtLastChild(h, self, in_str, sub) ==
    Failure(PyList(PyStrs(StrAll(h, self.parsers))), sub[Len(sub)].result.rest)

\* OrParser.parse: what is returned after the loop
OrFailure(h, self, in_str, sub) == Failure(PyList(PyStrs(StrAll(h, self.parsers))), in_str)

\* OrParser.parse giving the next parser the rest left by the one before
OrInput_Threaded(in_str, sub) == IF sub = <<>> THEN in_str ELSE sub[Len(sub)].result.rest

\* OrParser.parse: the input given to the next parser tried
OrInput(in_str, sub) == in_str

\* OrParser.parse: the loop from the i-th parser on
RECURSIVE OrFor(_, _, _, _)
OrFor(h, p, in_str, sub) ==
    LET self == h[p]
        i == Len(sub) + 1
    IN  IF i > Len(self.parsers)
        THEN Call(p, in_str, OrFailure(h, self, in_str, sub), sub)
        ELSE LET c == ParserParse(h, self.parsers[i], OrInput(in_str, sub))
                 result == c.result
             IN  IF result.kind \in {"Raise", "NoReturn"}
                 THEN Call(p, in_str, result, Append(sub, c))
                 ELSE IF result.kind = "Success"
                 THEN Call(p, in_str, result, Append(sub, c))
                 ELSE OrFor(h, p, in_str, Append(sub, c))

OrParse(h, p, in_str) == OrFor(h, p, in_str, <<>>)

\* KleeneParser.parse failing when the child never matched (one or more)
KleeneReturn_OneOrMore(results, result) ==
    IF results = <<>> THEN result ELSE Success(PyList(results), result.rest)

\* KleeneParser.parse: what is returned after the loop; result is the last,
\* failing result of the child
KleeneReturn(results, result) == Success(PyList(results), result.rest)

\* KleeneParser.parse: the while loop; the last call of sub is the one whose
\* result the loop condition tests
RECURSIVE KleeneWhile(_, _, _, _, _)
KleeneWhile(h, p, in_str, results, sub) ==
    LET self == h[p]
        result == sub[Len(sub)].result
    IN  IF result.kind \in {"Raise", "NoReturn"}
        THEN Call(p, in_str, result, sub)
        ELSE IF result.kind = "Success"
        THEN IF Len(results) >= MaxIter
             THEN Call(p, in_str, NoReturn, sub)
             ELSE KleeneWhile(h, p, in_str, Append(results, result.value),
                              Append(sub, ParserParse(h, self.parser, result.rest)))
        ELSE Call(p, in_str, KleeneReturn(results, result), sub)

KleeneParse(h, p, in_str) ==
    KleeneWhile(h, p, in_str, <<>>, <<ParserParse(h, h[p].parser, in_str)>>)

ParserParse(h, p, in_str) ==
    CASE h[p].kind = "LiteralParser" -> Call(p, in_str, LiteralParse(h[p], in_str), <<>>)
      [] h[p].kind = "RegexParser" -> Call(p, in_str, RegexParse(h[p], in_str), <<>>)
      [] h[p].kind = "ResultTransformingParser" -> TransParse(h, p, in_str)
      [] h[p].kind = "SeqParser" -> SeqParse(h, p, in_str)
      [] h[p].kind = "OrParser" -> OrParse(h, p, in_str)
      [] h[p].kind = "KleeneParser" -> KleeneParse(h, p, in_str)

(***************************************************************************)
(* Constructors and builder methods.  Each yields the heap after the call; *)
(* the new object is the last one.                                         *)
(***************************************************************************)
\* LiteralParser.__init__
LiteralParser(s) == [kind |-> "LiteralParser", s |-> s]
\* RegexParser.__init__
RegexParser(regex_str) == [kind |-> "RegexParser", regex |-> ReCompile(regex_str)]
\* KleeneParser.__init__
KleeneParser(parser) == [kind |-> "KleeneParser", parser |-> parser]
\* ResultTransformingParser.__init__
ResultTransformingParser(parser, trans) ==
    [kind |-> "ResultTransformingParser", parser |-> parser, trans |-> trans]
\* SeqParser.__init__
SeqParser(parsers) == [kind |-> "SeqParser", parsers |-> parsers]
\* OrParser.__init__
OrParser(parsers) == [kind |-> "OrParser", parsers |-> parsers]

\* Parser.then
ParserThen(h, self, next_parser) == Append(h, SeqParser(<<self, next_parser>>))
\* Parser.oor
ParserOor(h, self, alt_parser) == Append(h, OrParser(<<self, alt_parser>>))
\* Parser.w
ParserW(h, self, trans) == Append(h, ResultTransformingParser(self, trans))
\* SeqParser.then without the override: Parser.then, which nests
SeqThen_Nesting(h, self, parsers) == Append(h, SeqParser(<<self>> \o parsers))

\* SeqParser.then extending the list of self
SeqThen_InPlace(h, self, parsers) ==
    LET extended == [h EXCEPT ![self] = SeqParser(@.parsers \o parsers)]
    IN  Append(extended, SeqParser(extended[self].parsers))

\* SeqParser.then
SeqThen(h, self, parsers) == Append(h, SeqParser(h[self].parsers \o parsers))
\* OrParser.oor without the override: Parser.oor, which nests
OrOor_Nesting(h, self, parsers) == Append(h, OrParser(<<self>> \o parsers))

\* OrParser.oor
OrOor(h, self, parsers) == Append(h, OrParser(h[self].parsers \o parsers))

\* self.then(next_parser), dispatched on the class of self
Then(h, self, next_parser) ==
    IF h[self].kind = "SeqParser" THEN SeqThen(h, self, <<next_parser>>)
    ELSE ParserThen(h, self, next_parser)

\* self.oor(alt_parser), dispatched on the class of self
Oor(h, self, alt_parser) ==
    IF h[self].kind = "OrParser" THEN OrOor(h, self, <<alt_parser>>)
    ELSE ParserOor(h, self, alt_parser)

(***************************************************************************)
(* The program: a caller that constructs parsers and calls parse.          *)
(*   heap  the parser objects constructed so far                           *)
(*   made  for each object, the call that constructed it and, for a        *)
(*         builder method, the object it was called on as it then was      *)
(*   out   the last call of parse, NoCall before the first                 *)
(***************************************************************************)
Objs == 1..Len(heap)

\* a call of parse that does not return leaves the caller nothing to do
Running == out # NoCall /\ out.result.kind = "NoReturn"

CanConstruct == ~Running /\ Len(heap) < MaxObjs

\* The atoms the caller constructs.  Constructor calls do not depend on each
\* other, so the caller makes those of its atoms in one order: before any
\* builder call, each at most once, in the order of Atoms.
Atoms ==
    << LiteralParser(<<>>), LiteralParser(<<"a">>), LiteralParser(<<"1">>),
       RegexParser(<<"[", "0", "-", "9", "]", "+">>),
       RegexParser(<<"[", "0", "-", "9", "]", "*">>) >>

IsNextAtom(atom) ==
    \E k \in DOMAIN Atoms :
        /\ Atoms[k] = atom
        /\ \A i \in Objs : \E j \in 1..(k - 1) : heap[i] = Atoms[j]

\* The program of the end-to-end example:
\*   l("(").then(rep(r("[0-9]+").w(int))).then(l(")"))
\* as the calls it makes, in the order Python evaluates them
ExampleCalls ==
    << [op |-> "l", self |-> 0, arg |-> <<"(">>],
       [op |-> "r", self |-> 0, arg |-> <<"[", "0", "-", "9", "]", "+">>],
       [op |-> "w", self |-> 2, arg |-> "int"],
       [op |-> "rep", self |-> 0, arg |-> 3],
       [op |-> "then", self |-> 1, arg |-> 4],
       [op |-> "l", self |-> 0, arg |-> <<")">>],
       [op |-> "then", self |-> 5, arg |-> 6] >>

ExampleInput == <<"(", "1", "2", ")", "(", "3", "4", ")">>

\* the heap after one call
Construct(h, c) ==
    CASE c.op = "l" -> Append(h, LiteralParser(c.arg))
      [] c.op = "r" -> Append(h, RegexParser(c.arg))
      [] c.op = "w" -> ParserW(h, c.self, c.arg)
      [] c.op = "rep" -> Append(h, KleeneParser(c.arg))
      [] c.op = "then" -> Then(h, c.self, c.arg)
      [] c.op = "oor" -> Oor(h, c.self, c.arg)

RECURSIVE ExampleHeap(_)
\* the heap after the first k calls of the example
ExampleHeap(k) == IF k = 0 THEN <<>> ELSE Construct(ExampleHeap(k - 1), ExampleCalls[k])

Made(op, self, arg) ==
    [op |-> op, self |-> self, arg |-> arg, was |-> IF self = 0 THEN NoCall ELSE heap[self]]

Init ==
    /\ heap = <<>>
    /\ made = <<>>
    /\ out = NoCall

l(s) ==
    /\ CanConstruct
    /\ IsNextAtom(LiteralParser(s))
    /\ heap' = Append(heap, LiteralParser(s))
    /\ made' = Append(made, Made("l", 0, 0))
    /\ UNCHANGED out

r(regex_str) ==
    /\ CanConstruct
    /\ IsNextAtom(RegexParser(regex_str))
    /\ heap' = Append(heap, RegexParser(regex_str))
    /\ made' = Append(made, Made("r", 0, 0))
    /\ UNCHANGED out

rep(parser) ==
    /\ CanConstruct
    /\ heap' = Append(heap, KleeneParser(parser))
    /\ made' = Append(made, Made("rep", 0, parser))
    /\ UNCHANGED out

then(self, next_parser) ==
    /\ CanConstruct
    /\ heap' = Then(heap, self, next_parser)
    /\ made' = Append(made, Made("then", self, next_parser))
    /\ UNCHANGED out

oor(self, alt_parser) ==
    /\ CanConstruct
    /\ heap' = Oor(heap, self, alt_parser)
    /\ made' = Append(made, Made("oor", self, alt_parser))
    /\ UNCHANGED out

w(self, trans) ==
    /\ CanConstruct
    /\ heap' = ParserW(heap, self, trans)
    /\ made' = Append(made, Made("w", self, 0))
    /\ UNCHANGED out

\* parse(parser, in_str).  The caller of one behaviour makes one call of parse,
\* and makes it again as often as it likes, between any constructions: parse
\* assigns to no attribute of any object, so calls with other arguments in
\* between would reach no state that is not reached without them.
parse(parser, in_str) ==
    /\ ~Running
    /\ out = NoCall \/ (out.p = parser /\ out.in_str = in_str)
    /\ out' = ParserParse(heap, parser, in_str)
    /\ UNCHANGED <<heap, made>>

\* the next call of the example program, the calls before it made
example ==
    LET k == Len(heap) + 1 IN
    /\ ~Running
    /\ k <= Len(ExampleCalls)
    /\ heap = ExampleHeap(k - 1)
    /\ heap' = Construct(heap, ExampleCalls[k])
    /\ made' = Append(made, Made(ExampleCalls[k].op, ExampleCalls[k].self,
                                 IF ExampleCalls[k].op \in {"then", "rep"}
                                 THEN ExampleCalls[k].arg ELSE 0))
    /\ UNCHANGED out

\* parse called on an object of the example, with the example's input
example_parse(parser) ==
    /\ heap = ExampleHeap(Len(ExampleCalls))
    /\ parse(parser, ExampleInput)

Next ==
    \/ \E s \in Literals : l(s)
    \/ \E regex_str \in Patterns : r(regex_str)
    \/ \E parser \in Objs : rep(parser)
    \/ \E self \in Objs, next_parser \in Objs : then(self, next_parser)
    \/ \E self \in Objs, alt_parser \in Objs : oor(self, alt_parser)
    \/ \E self \in Objs, trans \in Transforms : w(self, trans)
    \/ \E parser \in Objs, in_str \in Inputs : parse(parser, in_str)
    \/ example
    \/ \E parser \in Objs : example_parse(parser)

Spec == Init /\ [][Next]_vars

(***************************************************************************)
(* Vocabulary of the properties.                                           *)
(***************************************************************************)
Called == out # NoCall
\* the call of parse returned a Success or a Failure
Returned == Called /\ out.result.kind \in {"Success", "Failure"}
Succeeded == Called /\ out.result.kind = "Success"
Failed == Called /\ out.result.kind = "Failure"
CalledOn(kind) == Called /\ heap[out.p].kind = kind

IsSuffix(rest, in_str) ==
    /\ Len(rest) <= Len(in_str)
    /\ SubSeq(in_str, Len(in_str) - Len(rest) + 1, Len(in_str)) = rest

\* the input the k-th call made by a sequence or a repetition is due: the
\* original input for the first, the rest left by the call before it otherwise
Threaded(c, k) == IF k = 1 THEN c.in_str ELSE c.sub[k - 1].result.rest

\* the input remaining after the last successful application of a
\* repetition's child, the last application being the one that failed
AfterLastSuccess(c) == Threaded(c, Len(c.sub))

\* an application of the child succeeded and consumed nothing
ZeroWidth(c) ==
    \E k \in DOMAIN c.sub :
        c.sub[k].result.kind = "Success" /\ c.sub[k].result.rest = c.sub[k].in_str

\* every application of the child returned a Success or a Failure
AllReturn(c) == \A k \in DOMAIN c.sub : c.sub[k].result.kind \in {"Success", "Failure"}

\* the example program was constructed and parse called on its last object
\* with the example's input
ExampleParsed ==
    /\ Called
    /\ heap = ExampleHeap(Len(ExampleCalls))
    /\ out.p = Len(ExampleCalls)
    /\ out.in_str = ExampleInput

(***************************************************************************)
(* C1.  rep(X).parse(input) returns a Success whose rest is the input      *)
(* remaining after the last successful application of X (the original      *)
(* input, with value [], when the first application fails): a partially    *)
(* matching, finally failing application of X consumes nothing.            *)
(***************************************************************************)
C1_RestAfterLastSuccess ==
    (CalledOn("KleeneParser") /\ Returned) =>
        /\ out.result.kind = "Success"
        /\ out.result.rest = AfterLastSuccess(out)
        /\ (Len(out.sub) = 1 =>
                out.result.value = PyList(<<>>) /\ out.result.rest = out.in_str)

(***************************************************************************)
(* C2.  When A.then(B).parse(input) succeeds, its value is the 2-tuple     *)
(* (a_value, b_value) of the values of A.parse(input) and of               *)
(* B.parse(A.parse(input).rest), and its rest is the rest of the latter,   *)
(* also for an A that is itself a sequence; so the example yields          *)
(* (("(", [12]), ")") with rest "(34)".                                    *)
(***************************************************************************)
C2_ThenPair ==
    /\ \A i \in Objs :
           (Succeeded /\ out.p = i /\ made[i].op = "then") =>
               LET a == ParserParse(heap, made[i].self, out.in_str).result
                   b == ParserParse(heap, made[i].arg, a.rest).result
               IN  /\ a.kind = "Success"
                   /\ b.kind = "Success"
                   /\ out.result.value = PyTuple(<<a.value, b.value>>)
                   /\ out.result.rest = b.rest
    /\ ExampleParsed =>
           out.result =
               Success(PyTuple(<<PyTuple(<<PyStr(<<"(">>), PyList(<<PyInt(12)>>)>>),
                                 PyStr(<<")">>)>>),
                       <<"(", "3", "4", ")">>)

(***************************************************************************)
(* C2, amended.  When A.then(B).parse(input) succeeds, its rest is the     *)
(* rest of B.parse(A.parse(input).rest); its value is the 2-tuple          *)
(* (a_value, b_value) when A is no sequence, and the flat tuple of A's     *)
(* values followed by b_value when A is a sequence; so the example yields  *)
(* ("(", [12], ")") with rest "(34)".                                      *)
(***************************************************************************)
C2_ThenFlat ==
    /\ \A i \in Objs :
           (Succeeded /\ out.p = i /\ made[i].op = "then") =>
               LET a == ParserParse(heap, made[i].self, out.in_str).result
                   b == ParserParse(heap, made[i].arg, a.rest).result
               IN  /\ a.kind = "Success"
                   /\ b.kind = "Success"
                   /\ out.result.value =
                          IF heap[made[i].self].kind = "SeqParser"
                          THEN PyTuple(Append(a.value.v, b.value))
                          ELSE PyTuple(<<a.value, b.value>>)
                   /\ out.result.rest = b.rest
    /\ ExampleParsed =>
           out.result =
               Success(PyTuple(<<PyStr(<<"(">>), PyList(<<PyInt(12)>>), PyStr(<<")">>)>>),
                       <<"(", "3", "4", ")">>)

\* the example was parsed: a sequence built by then on a sequence succeeded,
\* its children consuming input
C2_Witness ==
    /\ ExampleParsed
    /\ Succeeded
    /\ made[out.p].op = "then"
    /\ heap[made[out.p].self].kind = "SeqParser"
    /\ Len(out.result.value.v) = 3
    /\ out.result.rest # out.in_str

(***************************************************************************)
(* C3.  then(X) on a sequence with children [c1..cn] returns a sequence    *)
(* whose children are [c1..cn, X], oor(X) on an alternation with children  *)
(* [c1..cn] an alternation whose children are [c1..cn, X], after any chain *)
(* of such calls; the object the builder was called on keeps its children. *)
(***************************************************************************)
C3_FlatBuilders ==
    \A i \in Objs :
        /\ (made[i].op = "then" /\ made[i].was.kind = "SeqParser") =>
               /\ heap[i] = SeqParser(Append(made[i].was.parsers, made[i].arg))
               /\ heap[made[i].self] = made[i].was
        /\ (made[i].op = "oor" /\ made[i].was.kind = "OrParser") =>
               /\ heap[i] = OrParser(Append(made[i].was.parsers, made[i].arg))
               /\ heap[made[i].self] = made[i].was

\* a chain of two then calls built a sequence of three children
C3_Witness ==
    \E i \in Objs :
        /\ made[i].op = "then"
        /\ made[made[i].self].op = "then"
        /\ Len(heap[i].parsers) = 3
        /\ Len(heap[made[i].self].parsers) = 2

(***************************************************************************)
(* C4.  A sequence whose i-th child is the first to fail, on the remainder *)
(* left by the children before it, returns exactly that child's Failure,   *)
(* after calling the children 1..i and no other; when A fails on input,    *)
(* A.then(B).parse(input) is A.parse(input) and B is not called.           *)
(***************************************************************************)
C4_SeqPropagates ==
    /\ (CalledOn("SeqParser") /\ Failed) =>
           LET n == Len(out.sub) IN
           /\ n \in 1..Len(heap[out.p].parsers)
           /\ \A k \in 1..n :
                  /\ out.sub[k] = ParserParse(heap, heap[out.p].parsers[k], Threaded(out, k))
                  /\ out.sub[k].result.kind = IF k < n THEN "Success" ELSE "Failure"
           /\ out.result = out.sub[n].result
    /\ \A i \in Objs :
           (Called /\ out.p = i /\ made[i].op = "then") =>
               LET a == ParserParse(heap, made[i].self, out.in_str) IN
               a.result.kind = "Failure" =>
                   /\ out.result = a.result
                   /\ out.sub = IF heap[made[i].self].kind = "SeqParser" THEN a.sub ELSE <<a>>

\* a sequence failed at a child after the first, which left a Failure whose
\* rest is not the sequence's input
C4_Witness ==
    /\ CalledOn("SeqParser")
    /\ Failed
    /\ Len(out.sub) >= 2
    /\ Len(out.sub) < Len(heap[out.p].parsers)
    /\ out.result.rest # out.in_str

(***************************************************************************)
(* C5.  An alternation with children [c1..cn] that all fail on input       *)
(* returns a Failure whose expected is the list of the n descriptions      *)
(* str(c1)..str(cn) in this order and whose rest is the input, whatever    *)
(* rest the children's Failures have.                                      *)
(***************************************************************************)
C5_OrFailure ==
    (CalledOn("OrParser") /\ Failed) =>
        LET parsers == heap[out.p].parsers IN
        /\ Len(out.sub) = Len(parsers)
        /\ \A k \in DOMAIN out.sub : out.sub[k].result.kind = "Failure"
        /\ out.result.expected.t = "list"
        /\ Len(out.result.expected.v) = Len(parsers)
        /\ \A k \in DOMAIN parsers : out.result.expected.v[k] = PyStr(Str(heap, parsers[k]))
        /\ out.result.rest = out.in_str

\* an alternation failed, one of its children with a Failure whose rest is
\* not the input
C5_Witness ==
    /\ CalledOn("OrParser")
    /\ Failed
    /\ \E k \in DOMAIN out.sub : out.sub[k].result.rest # out.in_str

(***************************************************************************)
(* C6.  An alternation gives every child it tries the original input, and  *)
(* returns exactly the Success of the first child that succeeds on it; it  *)
(* calls no child after that one, even one that would match more.          *)
(***************************************************************************)
C6_OrFirstMatch ==
    (CalledOn("OrParser") /\ Returned) =>
        LET parsers == heap[out.p].parsers
            n == Len(out.sub)
        IN  /\ n \in 1..Len(parsers)
            /\ \A k \in 1..n : out.sub[k] = ParserParse(heap, parsers[k], out.in_str)
            /\ \A k \in 1..(n - 1) : out.sub[k].result.kind = "Failure"
            /\ Succeeded => out.result = out.sub[n].result
            /\ Failed => n = Len(parsers)

\* an alternation returned the Success of a child although a later child
\* would have matched a longer prefix
C6_Witness ==
    /\ CalledOn("OrParser")
    /\ Succeeded
    /\ \E k \in DOMAIN heap[out.p].parsers :
           LET later == ParserParse(heap, heap[out.p].parsers[k], out.in_str).result IN
           /\ k > Len(out.sub)
           /\ later.kind = "Success"
           /\ Len(later.rest) < Len(out.result.rest)

(***************************************************************************)
(* C7.  A failing parse does not advance: a Failure of a literal, a        *)
(* pattern or an alternation has the input as its rest; a transform        *)
(* returns its child's Failure unchanged; only a sequence returns a        *)
(* Failure whose rest is a proper suffix of its input, and it is then the  *)
(* rest of the failing child's Failure.                                    *)
(***************************************************************************)
C7_OnlySeqAdvances ==
    Failed =>
        /\ heap[out.p].kind \in {"LiteralParser", "RegexParser", "OrParser"} =>
               out.result.rest = out.in_str
        /\ heap[out.p].kind = "ResultTransformingParser" => out.result = out.sub[1].result
        /\ out.result.rest # out.in_str =>
               /\ heap[out.p].kind = "SeqParser"
               /\ out.result.rest = out.sub[Len(out.sub)].result.rest

(***************************************************************************)
(* C7, amended.  As C7, but a Failure whose rest is a proper suffix of the *)
(* input is returned by a sequence or by a transform, which passes on the  *)
(* Failure of its child; it is then the rest of the failing child's        *)
(* Failure.                                                                *)
(***************************************************************************)
C7_SeqOrTransAdvances ==
    Failed =>
        /\ heap[out.p].kind \in {"LiteralParser", "RegexParser", "OrParser"} =>
               out.result.rest = out.in_str
        /\ heap[out.p].kind = "ResultTransformingParser" => out.result = out.sub[1].result
        /\ heap[out.p].kind # "KleeneParser"
        /\ out.result.rest # out.in_str =>
               /\ heap[out.p].kind \in {"SeqParser", "ResultTransformingParser"}
               /\ IsSuffix(out.result.rest, out.in_str)
               /\ out.result.rest = out.sub[Len(out.sub)].result.rest

\* a transform returned a Failure whose rest is not its input
C7_Witness ==
    /\ CalledOn("ResultTransformingParser")
    /\ Failed
    /\ out.result.rest # out.in_str

(***************************************************************************)
(* C8.  The rest of every result, Success or Failure, of every parser is a *)
(* suffix of the input passed to parse.                                    *)
(***************************************************************************)
C8_RestIsSuffix == Returned => IsSuffix(out.result.rest, out.in_str)

\* a literal consumed a proper, non-empty prefix of the input
C8_Witness ==
    /\ CalledOn("LiteralParser")
    /\ Succeeded
    /\ out.result.rest # out.in_str
    /\ out.result.rest # <<>>

C10_ReadOnly ==
    [][/\ \A i \in DOMAIN heap : i \in DOMAIN heap' /\ heap'[i] = heap[i]
       /\ Called => out' = out]_vars

\* a sequence has been parsed, with a result, and then has been called on it
C10_Witness ==
    /\ CalledOn("SeqParser")
    /\ Returned
    /\ \E i \in Objs : made[i].op = "then" /\ made[i].self = out.p

====
